---- MODULE Spec2Model ----
(***************************************************************************)
(* State-machine model of the page build-and-render engine:                *)
(*   src/src/Page.js       the Page class (build, init, heartbeat, render) *)
(*   src/src/engine.js     the page registry (prebuild, render)            *)
(*   src/unnamed/part_000  the module export (a second registry render)    *)
(* The BuildScheduler, the file system, the build script, the SSR loader,  *)
(* the watcher library and the timers are the environment of this code.    *)
(***************************************************************************)
EXTENDS Integers, Sequences, FiniteSets, Bags, TLC

\* ------------------------------------------------------------------ bounds
MaxRenders == 2      \* registry render calls made by the application
MaxChanges == 1      \* watched-file changes made by the developer
MaxHeartbeats == 2   \* heartbeat messages sent by browsers
MaxFaults == 1       \* failures of the build script, the SSR loader, the SSR module
MaxHeadCalls == 2    \* calls of __headOnce() by one SSR module render

\* ------------------------------------------------------- program constants
idleTimeout == 15000
debounce == 100

\* ------------------------------------------------------------------- state
VARIABLES
    entry,       \* which registry the application uses: "engine" | "index"
    isElectron,  \* utils/isElectron, fixed for the process
    config,      \* the options the pages read: watch, liveReload
    dir,         \* the page files found under options.dir
    server,      \* path -> whether the page's source compiles to a server component
    headCalls,   \* how often the server components call __headOnce() in one render
    prebuilt,    \* prebuild(): "off" | "pending" (glob in flight) | "done"
    pages,       \* the registry: path -> Page id, 0 when there is no entry
    page,        \* the Page objects ever constructed, by id
    disk,        \* buildFile of each path: the artifact on disk
    deleting,    \* deleteIfExists() calls started and not yet completed
    nBuilds,     \* path -> artifact versions written so far
    tasks,       \* the asynchronous calls in flight, each at an await
    reqs,        \* the requests the scheduler was given, by id
    open,        \* the open watchers, <<page, handle>>
    notes,       \* change notifications the watchers have yet to deliver
    sleepers,    \* change handlers inside sleep(100)
    timers,      \* pending idle timers
    payload,     \* the ambient payload slot of ./payload: the context last set
    budget,      \* what the environment may still do
    hist,        \* history: notifications delivered, scheduleBuild calls, heartbeats
    ev           \* history: what the last step did

vars == <<entry, isElectron, config, dir, server, headCalls, prebuilt, pages, page,
          disk, deleting, nBuilds, tasks, reqs, open, notes, sleepers, timers,
          payload, budget, hist, ev>>

Paths == {1, 2}

\* ---------------------------------------------------------------- artifact
NoFile == [ver |-> 0, server |-> FALSE]
Partial == [ver |-> -1, server |-> FALSE]

\* the fields the constructor sets, and the ones it leaves undefined (0)
NewPage(path) ==
    [path |-> path, ready |-> FALSE, active |-> FALSE, idleTimer |-> 0,
     serverComponent |-> 0, clientComponent |-> 0, hashes |-> 0,
     ssrModule |-> 0, watcher |-> 0]

NoEv ==
    [op |-> "none", page |-> 0, script |-> "none", init |-> "none",
     req |-> 0, render |-> "none", to |-> "none", wasReady |-> FALSE,
     evicted |-> 0, created |-> 0, reload |-> "none", body |-> 0,
     cbs |-> 0, call |-> 0, seen |-> 0, heads |-> <<>>,
     out |-> [ssr |-> 0, css |-> 0, js |-> 0, hashes |-> 0]]

\* one asynchronous call chain, suspended at the await `pc`
Task(kind, p) ==
    [kind |-> kind, page |-> p, ph |-> "build", pc |-> "script",
     prio |-> FALSE, req |-> 0, arg |-> 0, job |-> 0, cb |-> FALSE,
     rebuild |-> FALSE, throws |-> FALSE, call |-> 0, locals |-> <<>>]

\* the mutable state as one value, so that the synchronous parts of a
\* handler compose as functions
State ==
    [prebuilt |-> prebuilt, pages |-> pages, page |-> page, disk |-> disk,
     deleting |-> deleting, nBuilds |-> nBuilds, tasks |-> tasks,
     reqs |-> reqs, open |-> open, notes |-> notes, sleepers |-> sleepers,
     timers |-> timers, payload |-> payload, budget |-> budget, hist |-> hist,
     ev |-> NoEv]

Set(s) ==
    /\ prebuilt' = s.prebuilt
    /\ pages' = s.pages
    /\ page' = s.page
    /\ disk' = s.disk
    /\ deleting' = s.deleting
    /\ nBuilds' = s.nBuilds
    /\ tasks' = s.tasks
    /\ reqs' = s.reqs
    /\ open' = s.open
    /\ notes' = s.notes
    /\ sleepers' = s.sleepers
    /\ timers' = s.timers
    /\ payload' = s.payload
    /\ budget' = s.budget
    /\ hist' = s.hist
    /\ ev' = s.ev
    /\ UNCHANGED <<entry, isElectron, config, dir, server, headCalls>>

Spawn(s, t) == [s EXCEPT !.tasks = @ (+) SetToBag({t})]
Drop(s, t) == [s EXCEPT !.tasks = @ (-) SetToBag({t})]
PathOf(s, t) == s.page[t.page].path

\* ------------------------------------------------- BuildScheduler (extern)
\* scheduler.build(page, priority) / scheduler.scheduleBuild(page, priority):
\* a request still queued for the page absorbs the new one (dedupe), else a
\* new request is queued. The result is <<state, request id>>.
Queued(s, p) == {r \in 1..Len(s.reqs) : s.reqs[r].page = p /\ s.reqs[r].st = "queued"}

SchedulerRequest(s, p, priority) ==
    IF Queued(s, p) # {}
    THEN LET r == CHOOSE r \in Queued(s, p) : TRUE
         IN <<[s EXCEPT !.reqs[r].prio = @ \/ priority, !.ev.req = r], r>>
    ELSE <<[s EXCEPT !.reqs = Append(@, [page |-> p, prio |-> priority, st |-> "queued"]),
                     !.ev.req = Len(s.reqs) + 1],
           Len(s.reqs) + 1>>

\* ------------------------------------------------------ registry: settle
\* engine.js 87, 91-95: callback(null, result) threw inside the try block, so
\* the catch runs: the entry is deleted and the callback is called again
CallbackThrew(s, t) ==
    [s EXCEPT !.pages[PathOf(s, t)] = 0,
              !.ev.evicted = s.pages[PathOf(s, t)],
              !.ev.cbs = @ + 1]

\* engine.js 84-90 / part_000 26: the Page render returned `out`
RegistryOk(s, t, out) ==
    LET s1 == [s EXCEPT !.ev.render = "ok", !.ev.out = out,
                        !.ev.to = IF t.cb \/ entry = "index" THEN "callback" ELSE "return",
                        !.ev.cbs = IF t.cb \/ entry = "index" THEN 1 ELSE 0]
    IN IF entry = "engine" /\ t.cb /\ t.throws THEN CallbackThrew(s1, t) ELSE s1

\* engine.js 91-99: the Page render threw; part_000 has no handler at all
RegistryErr(s, t) ==
    IF entry = "engine"
    THEN [s EXCEPT !.pages[PathOf(s, t)] = 0,
                            !.ev.evicted = s.pages[PathOf(s, t)],
                            !.ev.render = "err",
                            !.ev.cbs = IF t.cb THEN 1 ELSE 0,
                            !.ev.to = IF t.cb THEN "callback" ELSE "throw"]
    ELSE [s EXCEPT !.ev.render = "err", !.ev.to = "throw"]

\* (mutant) the error is swallowed: nobody is told
ThrowLost(s, t) == s

\* an error leaves the outermost call of the chain `t`
Throw(s, t) ==
    CASE t.kind = "render" -> RegistryErr(s, t)
      [] t.kind = "job" -> [s EXCEPT !.reqs[t.job].st = "failed", !.ev.to = "scheduler"]
      [] OTHER -> [s EXCEPT !.ev.to = "unhandled"]

\* --------------------------------------------------------- render context
\* locals are functions from keys to values; every caller value is "caller"
excludeLocals == {"_locals", "settings", "cache"}

\* engine.js 71-77: the locals the registry hands to the Page
SendLocals(locals) == [k \in DOMAIN locals \ excludeLocals |-> locals[k]]

\* {...a, ...b}: the keys of b win
Spread(a, b) ==
    [k \in DOMAIN a \cup DOMAIN b |-> IF k \in DOMAIN b THEN b[k] ELSE a[k]]

\* Page.js 194-206: the render context
Context(locals) == Spread([k \in {"__headOnce"} |-> "engine"], locals)

\* Page.js 192-203: the answers of n calls of __headOnce(), from flag _head
RECURSIVE HeadOnce(_, _)
HeadOnce(head, n) ==
    IF n = 0 THEN <<>> ELSE <<~head>> \o HeadOnce(TRUE, n - 1)

\* what the SSR module gets from n calls of locals.__headOnce()
HeadAnswers(ctx, n) ==
    IF ctx["__headOnce"] = "engine" THEN HeadOnce(FALSE, n)
    ELSE [i \in 1..n |-> ctx["__headOnce"]]

\* (mutant) the context is not published
PublishNothing(s, t) == s

\* Page.js 208: payload.set(locals)
Publish(s, t) ==
    [s EXCEPT !.payload = [call |-> t.call, ctx |-> Context(t.locals)]]

\* Page.js 230-232: module.render(locals); the module reads the ambient slot
Invoke(s, t) ==
    [s EXCEPT !.ev.call = t.call,
              !.ev.seen = s.payload.call,
              !.ev.heads = HeadAnswers(Context(t.locals), headCalls)]

\* ------------------------------------------------------------ Page.render
\* Page.js 192-299: the synchronous rest of render; `fail` is whether the
\* SSR module, the prerender hook or the template throws
RenderBody(s, t, fail) ==
    LET pg == s.page[t.page]
        s1 == Publish(s, t)
        s2 == IF pg.serverComponent # 0 /\ pg.ssrModule # 0 THEN Invoke(s1, t) ELSE s1
    IN
    IF \/ pg.serverComponent # 0 /\ pg.ssrModule = 0
       \/ pg.clientComponent = 0
       \/ fail
    THEN Throw([s2 EXCEPT !.budget.faults = IF fail THEN @ - 1 ELSE @], t)
    ELSE RegistryOk(s2, t, [ssr |-> IF pg.serverComponent # 0 THEN pg.ssrModule ELSE 0,
                            css |-> pg.serverComponent,
                            js |-> pg.clientComponent,
                            hashes |-> pg.hashes])

\* Page.js 103-106: init is entered and awaits buildFile.exists()
init(s, t, priority) ==
    Spawn(s, [t EXCEPT !.pc = "exists", !.prio = priority])

\* Page.js 188-190: after the optional forced build
AfterBuild(s, t, fail) ==
    IF ~s.page[t.page].ready
    THEN init(s, [t EXCEPT !.ph = "init"], TRUE)
    ELSE RenderBody(s, t, fail)

\* Page.js 100-101: build() returns to whoever called it
BuildDone(s, t, fail) ==
    CASE t.kind = "render" -> AfterBuild(s, t, fail)
      [] t.kind = "job" -> [s EXCEPT !.reqs[t.job].st = "ok"]
      [] OTHER -> s

\* init() returns normally to build() or to render()
InitReturn(s, t, fail) ==
    IF t.ph = "build" THEN BuildDone(s, t, fail) ELSE RenderBody(s, t, fail)

\* (mutant) the request is always low priority
ChangePriorityLow(pg) == FALSE

\* Page.js 143: the priority handed to scheduleBuild
ChangePriority(pg) == pg.active

\* (mutant) the handler never sleeps
NeverDebounce(pg) == FALSE

\* Page.js 138: whether the change handler sleeps before it asks
NeedsDebounce(pg) == ~isElectron /\ ~pg.active

\* Page.js 143: the change handler asks the scheduler for a rebuild
scheduleBuild(s, p, c) ==
    LET s1 == SchedulerRequest(s, p, ChangePriority(s.page[p]))[1]
    IN [s1 EXCEPT !.hist.calls = Append(@, [page |-> p, c |-> c,
                                            prio |-> ChangePriority(s.page[p]),
                                            active |-> s.page[p].active])]

\* Page.js 135-144: the watcher's change handler, up to its first await; the
\* history keeps `ver`, the artifact version on disk when the file changed,
\* and `renders`, the render calls the application had left
onChange(s, p, c, ver) ==
    LET s1 == [s EXCEPT !.page[p].ready = FALSE,
                        !.hist.notified = @ \cup {[page |-> p, c |-> c, age |-> 0,
                                                   active |-> s.page[p].active,
                                                   ver |-> ver,
                                                   renders |-> s.budget.renders]}]
    IN IF NeedsDebounce(s.page[p])
       THEN [s1 EXCEPT !.sleepers = @ \cup {[page |-> p, c |-> c, w |-> s.page[p].watcher,
                                               left |-> debounce]}]
       ELSE scheduleBuild(s1, p, c)

\* (mutant) the previous watcher stays open
KeepWatcher(s, p) == s

\* Page.js 129-131: the previous watcher is closed; its undelivered events go
CloseWatcher(s, p) ==
    IF s.page[p].watcher # 0
    THEN [s EXCEPT !.open = @ \ {<<p, s.page[p].watcher>>},
                   !.notes = {n \in @ : n.w # <<p, s.page[p].watcher>>}]
    ELSE s

\* Page.js 133-144: a new watcher on clientComponent.watchFiles
FreeHandle(s, p) == CHOOSE k \in 1..(Cardinality(s.open) + 1) :
                        /\ <<p, k>> \notin s.open
                        /\ \A j \in 1..(k - 1) : <<p, j>> \in s.open

OpenWatcher(s, p) ==
    [s EXCEPT !.open = @ \cup {<<p, FreeHandle(s, p)>>},
              !.page[p].watcher = FreeHandle(s, p)]

\* (mutant) no reload notice is sent
NoReload(s, p) == s

\* Page.js 146-164: the reload notice of a completed init pass: the windows
\* at this path are reloaded, or the path is sent to every socket client
Reload(s, p) ==
    IF config.liveReload
    THEN [s EXCEPT !.ev.reload = IF isElectron THEN "window" ELSE "socket",
                   !.ev.body = s.page[p].path]
    ELSE s

\* Page.js 128-167: the tail of a successful init pass
InitTail(s, t, fail) ==
    LET s1 == IF config.watch THEN Reload(OpenWatcher(CloseWatcher(s, t.page), t.page), t.page)
              ELSE s
        s2 == [s1 EXCEPT !.page[t.page].ready = TRUE, !.ev.init = "ok"]
    IN InitReturn(s2, t, fail)

\* (mutant) the catch only re-throws
InitCatchKeepsFile(s, t) == Throw([s EXCEPT !.ev.init = "err"], t)

\* Page.js 122-126: the catch of init: deleteIfExists() is started and not
\* awaited, then the error is re-thrown
InitCatch(s, t) ==
    Throw([s EXCEPT !.deleting[PathOf(s, t)] = @ + 1, !.ev.init = "err"], t)


\* ------------------------------------------------------------ Page.build
\* Page.js 69-98: build() starts the build script and awaits it
build(s, t) == Spawn(s, [t EXCEPT !.ph = "build", !.pc = "script"])

\* (mutant) every render runs the build first
RenderAlwaysBuilds(s, t, fail) == build(s, t)

\* Page.js 183-190: render() up to its first await
render(s, t, fail) ==
    IF t.rebuild THEN build(s, t) ELSE AfterBuild(s, t, fail)

\* Page.js 22-67: a new Page; the result is <<state, Page id>>
createPage(s, path) ==
    <<[s EXCEPT !.page = Append(@, NewPage(path)),
                !.hist.beat = Append(@, -1),
                !.ev.created = Len(s.page) + 1],
      Len(s.page) + 1>>

\* --------------------------------------------------------- Page.heartbeat
FreeTimer(s, p) == CHOOSE k \in 1..(Cardinality(s.timers) + 1) :
                       /\ \A tm \in s.timers : ~(tm.page = p /\ tm.id = k)
                       /\ \A j \in 1..(k - 1) : \E tm \in s.timers : tm.page = p /\ tm.id = j

\* (mutant) the pending timer is not cleared
KeepIdleTimer(s, p) == s

\* Page.js 173-175: clearTimeout(this.idleTimer)
ClearIdleTimer(s, p) ==
    IF s.page[p].idleTimer # 0
    THEN [s EXCEPT !.timers = {tm \in @ : ~(tm.page = p /\ tm.id = s.page[p].idleTimer)}]
    ELSE s

\* Page.js 177-180: setTimeout(..., idleTimeout)
SetIdleTimer(s, p) ==
    [s EXCEPT !.timers = @ \cup {[page |-> p, id |-> FreeTimer(s, p), left |-> idleTimeout]},
              !.page[p].idleTimer = FreeTimer(s, p)]

\* Page.js 170-181
heartbeat(s, p) ==
    SetIdleTimer(ClearIdleTimer([s EXCEPT !.page[p].active = TRUE,
                                          !.hist.beat[p] = 0], p), p)

\* (mutant) the expiry only clears the handle
IdleExpiredKeepsActive(s, p) == [s EXCEPT !.page[p].idleTimer = 0]

\* Page.js 177-180: the idle timer's callback
IdleExpired(s, p) ==
    [s EXCEPT !.page[p].active = FALSE, !.page[p].idleTimer = 0]

\* ---------------------------------------------------------------- actions
\* whether the SSR module or the template may throw in this step
Fails == {FALSE} \cup {f \in {TRUE} : budget.faults > 0}

Started(op, p) == [State EXCEPT !.ev.op = op, !.ev.page = p,
                                !.ev.wasReady = IF p = 0 THEN FALSE ELSE page[p].ready]

\* the locals object with the given keys
Locals(keys) == [k \in keys |-> "caller"]

\* engine.js 70-84 / part_000 21-26: a registry render call; `throws` is
\* whether the callback throws when it is called
RenderCall(path, locals, cb, throws) ==
    /\ budget.renders > 0
    /\ LET s0 == [State EXCEPT !.budget.renders = @ - 1, !.ev.op = "render"]
           sendLocals == IF entry = "engine" THEN SendLocals(locals) ELSE locals
           cp == IF pages[path] = 0 THEN createPage(s0, path) ELSE <<s0, pages[path]>>
           s1 == [cp[1] EXCEPT !.pages[path] = cp[2], !.ev.page = cp[2],
                               !.ev.wasReady = cp[1].page[cp[2]].ready]
           t == [Task("render", cp[2]) EXCEPT !.cb = cb, !.throws = throws,
                                                !.locals = sendLocals,
                                                !.rebuild = "_rebuild" \in DOMAIN sendLocals,
                                                !.call = budget.renders]
       IN \E fail \in Fails : Set(render(s1, t, fail))

\* a render call whose locals carry at most the forced-rebuild request
RenderStart(path, rebuild, cb) ==
    RenderCall(path, Locals({k \in {"_rebuild"} : rebuild}), cb, FALSE)

\* engine.js 48-58: the bulk prebuild scan, once the glob has answered
PrebuildOne(s, path) ==
    LET cp == createPage(s, path)
    IN build([cp[1] EXCEPT !.pages[path] = cp[2]], Task("pre", cp[2]))

RECURSIVE PrebuildAll(_, _)
PrebuildAll(s, files) ==
    IF files = {} THEN s
    ELSE LET f == CHOOSE f \in files : \A g \in files : f <= g
         IN PrebuildAll(PrebuildOne(s, f), files \ {f})

prebuild ==
    /\ entry = "engine"
    /\ prebuilt = "pending"
    /\ Set(PrebuildAll([State EXCEPT !.prebuilt = "done", !.ev.op = "prebuild"], dir))

\* BuildScheduler (extern): a queued request is started: page.build()
SchedulerRun(r) ==
    /\ r \in 1..Len(reqs)
    /\ reqs[r].st = "queued"
    /\ \A q \in 1..Len(reqs) : reqs[q].st = "running" => reqs[q].page # reqs[r].page
    /\ Set(build([Started("run", reqs[r].page) EXCEPT !.reqs[r].st = "running"],
                 [Task("job", reqs[r].page) EXCEPT !.job = r]))

\* Page.js 89, 97-98: the build script ends
BuildOutcomes == {"ok", "nofile", "fail", "partial"}

ScriptDone(t, outcome) ==
    /\ t \in BagToSet(tasks)
    /\ t.pc = "script"
    /\ outcome = "ok" \/ budget.faults > 0
    /\ LET s0 == [Drop(Started("script", t.page), t) EXCEPT
                     !.ev.script = outcome,
                     !.budget.faults = IF outcome = "ok" THEN @ ELSE @ - 1]
           path == page[t.page].path
       IN CASE outcome = "ok" ->
                 Set(init([s0 EXCEPT !.nBuilds[path] = @ + 1,
                                     !.disk[path] = [ver |-> nBuilds[path] + 1,
                                                     server |-> server[path]]],
                          t, FALSE))
            [] outcome = "nofile" -> Set(init(s0, t, FALSE))
            [] outcome = "partial" -> Set(Throw([s0 EXCEPT !.disk[path] = Partial], t))
            [] OTHER -> Set(Throw(s0, t))

\* Page.js 104-106: buildFile.exists() answers
Exists(t) ==
    /\ t \in BagToSet(tasks)
    /\ t.pc = "exists"
    /\ LET s0 == Drop(Started("exists", t.page), t)
       IN IF disk[page[t.page].path] = NoFile
          THEN LET sr == SchedulerRequest([s0 EXCEPT !.ev.init = "nofile"], t.page, t.prio)
               IN Set(Spawn(sr[1], [t EXCEPT !.pc = "sched", !.req = sr[2]]))
          ELSE Set(Spawn(s0, [t EXCEPT !.pc = "read"]))

\* Page.js 109-121: buildFile.readJson() answers
Read(t) ==
    /\ t \in BagToSet(tasks)
    /\ t.pc = "read"
    /\ LET s0 == Drop(Started("read", t.page), t)
           art == disk[page[t.page].path]
           s1 == [s0 EXCEPT !.page[t.page].serverComponent = IF art.server THEN art.ver ELSE 0,
                            !.page[t.page].clientComponent = art.ver,
                            !.page[t.page].hashes = art.ver]
       IN \E fail \in Fails :
            IF art.ver <= 0 THEN Set(InitCatch(s0, t))
            ELSE IF art.server THEN Set(Spawn(s1, [t EXCEPT !.pc = "ssr", !.arg = art.ver]))
            ELSE Set(InitTail(s1, t, fail))

\* Page.js 120: instantiateSsrModule() answers
Ssr(t, ok) ==
    /\ t \in BagToSet(tasks)
    /\ t.pc = "ssr"
    /\ ok \/ budget.faults > 0
    /\ LET s0 == [Drop(Started("ssr", t.page), t) EXCEPT !.budget.faults = IF ok THEN @ ELSE @ - 1]
       IN \E fail \in Fails :
            IF ok THEN Set(InitTail([s0 EXCEPT !.page[t.page].ssrModule = t.arg], t, fail))
            ELSE Set(InitCatch(s0, t))

\* Page.js 105: the promise of scheduler.build() settles
SchedSettled(t) ==
    /\ t \in BagToSet(tasks)
    /\ t.pc = "sched"
    /\ reqs[t.req].st \in {"ok", "failed"}
    /\ LET s0 == Drop(Started("settled", t.page), t)
       IN \E fail \in Fails :
            IF reqs[t.req].st = "ok" THEN Set(InitReturn(s0, t, fail))
            ELSE Set(Throw(s0, t))

\* Page.js 123: a deleteIfExists() that was not awaited completes
DeleteDone(path) ==
    /\ deleting[path] > 0
    /\ Set([State EXCEPT !.deleting[path] = @ - 1, !.disk[path] = NoFile, !.ev.op = "deleted"])

\* a file that the open watchers watch is changed
FileChange ==
    /\ budget.changes > 0
    /\ open # {}
    /\ Set([State EXCEPT !.budget.changes = @ - 1, !.ev.op = "change",
                         !.notes = @ \cup {[w |-> w, c |-> budget.changes,
                                             ver |-> disk[page[w[1]].path].ver] : w \in open}])

\* Page.js 135: a watcher delivers "change"
Notify(n) ==
    /\ n \in notes
    /\ Set(onChange([Started("notify", n.w[1]) EXCEPT !.notes = @ \ {n}], n.w[1], n.c, n.ver))

\* Page.js 140-143: sleep(100) is over
Wake(sl) ==
    /\ sl \in sleepers
    /\ sl.left = 0
    /\ Set(scheduleBuild([Started("wake", sl.page) EXCEPT !.sleepers = @ \ {sl}],
                         sl.page, sl.c))

\* Page.js 57-65: a browser's heartbeat message for `path` arrives
RECURSIVE HeartbeatAll(_, _)
HeartbeatAll(s, ps) ==
    IF ps = {} THEN s
    ELSE LET p == CHOOSE p \in ps : \A q \in ps : p <= q
         IN HeartbeatAll(heartbeat(s, p), ps \ {p})

Message(path) ==
    /\ budget.beats > 0
    /\ config.liveReload
    /\ \E p \in 1..Len(page) : page[p].path = path
    /\ Set(HeartbeatAll([State EXCEPT !.budget.beats = @ - 1, !.ev.op = "message"],
                        {p \in 1..Len(page) : page[p].path = path}))

\* Page.js 177-180: an idle timer fires
Expire(tm) ==
    /\ tm \in timers
    /\ tm.left = 0
    /\ Set(IdleExpired([Started("expire", tm.page) EXCEPT !.timers = @ \ {tm}], tm.page))

\* time passes, up to the next deadline; a timer that is due fires first
Lefts == {tm.left : tm \in timers} \cup {sl.left : sl \in sleepers}
Step == CHOOSE d \in Lefts : \A e \in Lefts : d <= e
Less(x, d) == [x EXCEPT !.left = @ - d]
Older(a, d, cap) == IF a < 0 THEN a ELSE IF a + d > cap THEN cap ELSE a + d

Tick ==
    /\ Lefts # {}
    /\ 0 \notin Lefts
    /\ Set([State EXCEPT !.ev.op = "tick",
                         !.timers = {Less(tm, Step) : tm \in @},
                         !.sleepers = {Less(sl, Step) : sl \in @},
                         !.hist.notified = {[n EXCEPT !.age = Older(@, Step, debounce)] : n \in @},
                         !.hist.beat = [p \in 1..Len(page) |-> Older(@[p], Step, idleTimeout)]])

\* --------------------------------------------------------- specifications
Empty ==
    /\ config = [watch |-> TRUE, liveReload |-> TRUE]
    /\ pages = [path \in Paths |-> 0]
    /\ page = <<>>
    /\ deleting = [path \in Paths |-> 0]
    /\ tasks = EmptyBag
    /\ reqs = <<>>
    /\ open = {}
    /\ notes = {}
    /\ sleepers = {}
    /\ timers = {}
    /\ payload = [call |-> 0, ctx |-> <<>>]
    /\ hist = [notified |-> {}, calls |-> <<>>, beat |-> <<>>]
    /\ ev = NoEv

\* the build directory is empty
Fresh ==
    /\ Empty
    /\ disk = [path \in Paths |-> NoFile]
    /\ nBuilds = [path \in Paths |-> 0]

\* the same with server components that call __headOnce() once
Blank == Fresh /\ headCalls = 1

\* the engine of engine.js over a directory with one page, no prebuild
\* (options.init false): renders and forced rebuilds
Init ==
    /\ Blank
    /\ entry = "engine"
    /\ isElectron = FALSE
    /\ dir = {1}
    /\ server \in {[path \in Paths |-> path = 1 /\ b] : b \in BOOLEAN}
    /\ prebuilt = "off"
    /\ budget = [renders |-> MaxRenders, changes |-> 0, beats |-> 0,
                 faults |-> MaxFaults]

\* the engine of engine.js over a directory with one page, which prebuilds
\* it (options.init true): file changes, heartbeats, timers
InitBeat ==
    /\ Blank
    /\ entry = "engine"
    /\ isElectron \in BOOLEAN
    /\ dir = {1}
    /\ server = [path \in Paths |-> path = 1]
    /\ prebuilt = "pending"
    /\ budget = [renders |-> 0, changes |-> MaxChanges, beats |-> MaxHeartbeats,
                 faults |-> 0]

\* the same over a directory with two pages that import one file, and one
\* change of that file
InitWatch ==
    /\ Blank
    /\ entry = "engine"
    /\ isElectron \in BOOLEAN
    /\ dir = {1, 2}
    /\ server = [path \in Paths |-> TRUE]
    /\ prebuilt = "pending"
    /\ budget = [renders |-> 0, changes |-> 1, beats |-> MaxHeartbeats,
                 faults |-> 0]

\* the engine of engine.js over a directory with one page, which prebuilds
\* it (options.init true) while the application renders
InitPrebuild ==
    /\ Blank
    /\ entry = "engine"
    /\ isElectron = FALSE
    /\ dir = {1}
    /\ server = [path \in Paths |-> path = 1]
    /\ prebuilt = "pending"
    /\ budget = [renders |-> MaxRenders, changes |-> 0, beats |-> 0,
                 faults |-> MaxFaults]

\* the engine of engine.js over a directory with one page, no prebuild:
\* renders and file changes
InitStale ==
    /\ Blank
    /\ entry = "engine"
    /\ isElectron = FALSE
    /\ dir = {1}
    /\ server = [path \in Paths |-> path = 1]
    /\ prebuilt = "off"
    /\ budget = [renders |-> MaxRenders, changes |-> MaxChanges, beats |-> 0,
                 faults |-> 0]

\* the engine of engine.js outside the embedded shell over a directory with
\* one page, which prebuilds it: file changes, one heartbeat (the page is
\* viewed or not when a file changes), and builds that may fail
InitReload ==
    /\ Blank
    /\ entry = "engine"
    /\ isElectron = FALSE
    /\ dir = {1}
    /\ server = [path \in Paths |-> path = 1]
    /\ prebuilt = "pending"
    /\ budget = [renders |-> 0, changes |-> MaxChanges, beats |-> 1,
                 faults |-> MaxFaults]

\* the engine of engine.js over a directory with one page, no prebuild: one
\* render more, so that a third can follow two that overlap
InitEvict ==
    /\ Blank
    /\ entry = "engine"
    /\ isElectron = FALSE
    /\ dir = {1}
    /\ server = [path \in Paths |-> path = 1]
    /\ prebuilt = "off"
    /\ budget = [renders |-> MaxRenders + 1, changes |-> 0, beats |-> 0,
                 faults |-> MaxFaults]

\* the module export of part_000 as the registry
InitIndex ==
    /\ Blank
    /\ entry = "index"
    /\ isElectron = FALSE
    /\ dir = {1}
    /\ server \in {[path \in Paths |-> path = 1 /\ b] : b \in BOOLEAN}
    /\ prebuilt = "off"
    /\ budget = [renders |-> MaxRenders, changes |-> 0, beats |-> 0,
                 faults |-> MaxFaults]

\* the engine of engine.js, no prebuild, over two pages whose artifacts an
\* earlier run of the process has left on disk
InitCached ==
    /\ Empty
    /\ entry = "engine"
    /\ isElectron = FALSE
    /\ dir = {1, 2}
    /\ server = [path \in Paths |-> TRUE]
    /\ headCalls = 1
    /\ disk = [path \in Paths |-> [ver |-> 1, server |-> TRUE]]
    /\ nBuilds = [path \in Paths |-> 1]
    /\ prebuilt = "off"
    /\ budget = [renders |-> MaxRenders, changes |-> 0, beats |-> 0, faults |-> 0]

\* the same over one page, whose server component calls __headOnce() any
\* number of times
InitLocals ==
    /\ Empty
    /\ entry = "engine"
    /\ isElectron = FALSE
    /\ dir = {1}
    /\ server = [path \in Paths |-> path = 1]
    /\ headCalls \in 0..MaxHeadCalls
    /\ disk = [path \in Paths |-> IF path = 1 THEN [ver |-> 1, server |-> TRUE] ELSE NoFile]
    /\ nBuilds = [path \in Paths |-> IF path = 1 THEN 1 ELSE 0]
    /\ prebuilt = "off"
    /\ budget = [renders |-> MaxRenders, changes |-> 0, beats |-> 0, faults |-> 0]

Building ==
    \/ \E t \in BagToSet(tasks) : \E o \in BuildOutcomes : ScriptDone(t, o)
    \/ \E t \in BagToSet(tasks) : Exists(t)
    \/ \E t \in BagToSet(tasks) : Read(t)
    \/ \E t \in BagToSet(tasks) : \E ok \in BOOLEAN : Ssr(t, ok)

Scheduling ==
    \/ \E r \in 1..Len(reqs) : SchedulerRun(r)
    \/ \E t \in BagToSet(tasks) : SchedSettled(t)

Deleting == \E path \in Paths : DeleteDone(path)

Watching ==
    \/ FileChange
    \/ \E n \in notes : Notify(n)
    \/ \E sl \in sleepers : Wake(sl)
    \/ Tick

Beating ==
    \/ \E path \in dir : Message(path)
    \/ \E tm \in timers : Expire(tm)

Rendering ==
    \E path \in dir : \E rebuild, cb \in BOOLEAN : RenderStart(path, rebuild, cb)

\* render calls that return their result (no callback)
RenderingPlain ==
    \E path \in dir : \E rebuild \in BOOLEAN : RenderStart(path, rebuild, FALSE)

\* render calls with any of these keys in the caller's locals
LocalKeys == {"_rebuild", "__headOnce", "settings", "title"}

RenderingLocals ==
    \E path \in dir : \E keys \in SUBSET LocalKeys :
        RenderCall(path, Locals(keys), FALSE, FALSE)

\* render calls without locals and without callback
RenderingBare == \E path \in dir : RenderStart(path, FALSE, FALSE)

\* render calls with a callback that may throw when it is called
RenderingCallbacks ==
    \E path \in dir : \E cb, throws \in BOOLEAN :
        /\ throws => cb
        /\ RenderCall(path, Locals({}), cb, throws)

Next == Rendering \/ Building \/ Scheduling \/ Deleting

NextWatch ==
    \/ prebuild
    \/ Building
    \/ \E r \in 1..Len(reqs) : SchedulerRun(r)
    \/ Watching
    \/ Beating

NextCached == RenderingPlain \/ Building

NextLocals == RenderingLocals \/ Building

NextPrebuild == prebuild \/ RenderingPlain \/ Building \/ Scheduling \/ Deleting

NextCallback == RenderingCallbacks \/ Building \/ Scheduling \/ Deleting

NextStale == RenderingBare \/ Building \/ Scheduling \/ Watching

\* the watchers and timers deliver what is pending
Delivering ==
    \/ \E n \in notes : Notify(n)
    \/ \E sl \in sleepers : Wake(sl)
    \/ \E tm \in timers : Expire(tm)
    \/ Tick

NextReload == prebuild \/ Building \/ Scheduling \/ Deleting \/ Watching \/ Beating

NextEvict == RenderingBare \/ Building \/ Scheduling \/ Deleting

Spec == Init /\ [][Next]_vars
SpecBeat == InitBeat /\ [][NextWatch]_vars
SpecWatch == InitWatch /\ [][NextWatch]_vars
SpecIndex == InitIndex /\ [][Next]_vars
SpecCached == InitCached /\ [][NextCached]_vars
SpecLocals == InitLocals /\ [][NextLocals]_vars
SpecPrebuild == InitPrebuild /\ [][NextPrebuild]_vars
SpecCallback == Init /\ [][NextCallback]_vars
SpecStale == InitStale /\ [][NextStale]_vars
SpecEvict == InitEvict /\ [][NextEvict]_vars

\* every callback, promise continuation and timer that is due runs in the
\* end; the scheduler starts what it may start; nobody has to change a file
SpecReload ==
    /\ InitReload
    /\ [][NextReload]_vars
    /\ WF_vars(prebuild)
    /\ WF_vars(Building)
    /\ WF_vars(Scheduling)
    /\ WF_vars(Deleting)
    /\ WF_vars(Delivering)

\* ------------------------------------------------------------- properties
Scripts(p) == {t \in BagToSet(tasks) : t.page = p /\ t.pc = "script"}
PageIds == 1..Len(page)
CallIds == 1..Len(hist.calls)
NoteOf(i) == CHOOSE n \in hist.notified : n.page = hist.calls[i].page /\ n.c = hist.calls[i].c
CallsOf(n) == {i \in CallIds : hist.calls[i].page = n.page /\ hist.calls[i].c = n.c}
SleepersOf(n) == {sl \in sleepers : sl.page = n.page /\ sl.c = n.c}

\* C1: at any instant at most one run of the build script is in flight for a
\* page (the scheduler runs at most one of its own builds per page).
C1_OneBuildInFlight ==
    \A p \in PageIds :
        /\ Cardinality(Scripts(p)) <= 1
        /\ \A t \in Scripts(p) : CopiesIn(t, tasks) = 1

\* C2: when a Page's render fails inside the registry's render, the registry
\* entry of the path is gone and, if a callback was given, it got the error.
C2_FailureEvicts ==
    ev.render = "err" =>
        /\ pages[page[ev.page].path] = 0
        /\ ev.to \in {"callback", "throw"}

\* C3: the priority of the rebuild request of a change notification is the
\* value `active` had when the notification was delivered.
C3_PriorityAtNotification ==
    \A i \in CallIds : hist.calls[i].prio = NoteOf(i).active

\* C3 (amended): a change notification sets ready to false and leads to exactly
\* one rebuild request (issued, or still behind the debounce), whose priority
\* is the value `active` has when the request is issued; that is the value at
\* the notification whenever the request was not debounced.
C3_PriorityAtRequest ==
    /\ ev.op = "notify" => ~page[ev.page].ready
    /\ \A n \in hist.notified : Cardinality(CallsOf(n)) + Cardinality(SleepersOf(n)) = 1
    /\ \A i \in CallIds :
        /\ hist.calls[i].prio = hist.calls[i].active
        /\ (NoteOf(i).active \/ isElectron) => hist.calls[i].prio = NoteOf(i).active

\* C3 witness: a debounced request was issued after a heartbeat made the page
\* active
C3_Witness ==
    \E i \in CallIds : hist.calls[i].prio /\ ~NoteOf(i).active

\* C4: outside the embedded shell, of the requests of one file change the one
\* of a page that was active comes before the one of a page that was inactive.
C4_ActiveFirst ==
    \A i, j \in CallIds :
        (/\ ~isElectron
         /\ hist.calls[i].c = hist.calls[j].c
         /\ NoteOf(i).active
         /\ ~NoteOf(j).active) => i < j

\* C4 (amended): outside the embedded shell, the request of a page that was
\* active is issued in the turn of its notification and the request of a page
\* that was inactive no earlier than the debounce after its notification (so
\* the active page's request comes first when its notification is delivered
\* less than the debounce after the inactive page's); in the embedded shell
\* every request is issued in the turn of its notification.
C4_DebounceOnlyInactive ==
    \A n \in hist.notified :
        /\ (n.active \/ isElectron) => CallsOf(n) # {} /\ SleepersOf(n) = {}
        /\ (~n.active /\ ~isElectron /\ CallsOf(n) # {}) => n.age >= debounce

\* C4 witness: one change, the active page's request before the inactive one's
C4_Witness ==
    \E i, j \in CallIds :
        /\ i < j
        /\ hist.calls[i].c = hist.calls[j].c
        /\ NoteOf(i).active
        /\ ~NoteOf(j).active
        /\ ~isElectron

\* C5: after a heartbeat the page is active until a full idle window has
\* passed since the most recent heartbeat; the expiry sets active to false
\* and clears the handle; no timer of an earlier heartbeat stays pending.
C5_ActivityDecay ==
    /\ \A p \in PageIds :
        /\ (hist.beat[p] >= 0 /\ hist.beat[p] < idleTimeout) => page[p].active
        /\ (hist.beat[p] >= 0 /\ ~page[p].active) => page[p].idleTimer = 0
        /\ hist.beat[p] < 0 => ~page[p].active
    /\ \A tm \in timers : page[tm.page].idleTimer = tm.id
    /\ ev.op = "expire" =>
        /\ ~page[ev.page].active
        /\ page[ev.page].idleTimer = 0
        /\ hist.beat[ev.page] = idleTimeout

\* C5 witness: a second heartbeat restarted the window, which then ran out
C5_Witness ==
    /\ ev.op = "expire"
    /\ budget.beats = 0

\* C6: a ready page has its client component and, with a server component,
\* the SSR module instantiated from that same artifact.
C6_ReadyConsistent ==
    \A p \in PageIds :
        page[p].ready =>
            /\ page[p].clientComponent # 0
            /\ page[p].serverComponent # 0 => page[p].ssrModule = page[p].serverComponent

C8_PartialDeleted ==
    ev.script = "partial" => disk[page[ev.page].path] = NoFile

\* C8 (amended): the failed build() leaves the partially written artifact on
\* disk; the init pass that then fails to read it starts its deletion and
\* re-throws.
C8_PartialDeletedByInit ==
    /\ ev.script = "partial" => disk[page[ev.page].path] = Partial
    /\ (ev.op = "read" /\ ev.init = "err") =>
        /\ deleting[page[ev.page].path] > 0
        /\ ev.to # "none"

\* C8 witness: an init pass has just failed on the partial artifact
C8_Witness ==
    /\ ev.op = "read"
    /\ ev.init = "err"
    /\ disk[page[ev.page].path] = Partial

\* C9: when init has thrown on an artifact it could not read or load, the
\* artifact file is deleted.
C9_CorruptDeleted ==
    ev.init = "err" => disk[page[ev.page].path] = NoFile

\* C10: build() asks for no further build on its own: no build() is waiting
\* for a scheduler request that its own init pass issued.
C10_NoRetry ==
    \A t \in BagToSet(tasks) : ~(t.ph = "build" /\ t.pc = "sched")

C12_InternalKept ==
    ev.call # 0 =>
        /\ payload.ctx["__headOnce"] = "engine"
        /\ Len(ev.heads) = headCalls
        /\ \A i \in 1..Len(ev.heads) : ev.heads[i] = (i = 1)

\* C13: the registry entry of a path changes from one Page to none or to
\* another Page only in a step in which a render of that path's Page fails;
\* so after a render that succeeded the next render finds the same Page.
C13_EntryKept ==
    [][\A path \in Paths :
          (pages[path] # 0 /\ pages'[path] # pages[path]) =>
              /\ ev'.render = "err"
              /\ ev'.page = pages[path]]_vars

\* C17: a registry render that was given a callback calls it exactly once,
\* and one that was given none calls nothing.
C17_CallbackOnce ==
    ev.render # "none" => ev.cbs = (IF ev.to = "callback" THEN 1 ELSE 0)

\* C14: after a change notification the page is not ready again from an
\* artifact that was on disk when the file changed, and no render that
\* arrived after the notification returns content of such an artifact: both
\* need an artifact that a later build has written.
C14_StaleUntilRebuilt ==
    \A n \in hist.notified :
        /\ page[n.page].ready => page[n.page].clientComponent > n.ver
        /\ (ev.render = "ok" /\ ev.page = n.page /\ ev.call # 0 /\ ev.call <= n.renders)
              => ev.out.js > n.ver

\* C15: a Page has at most one open watcher, the one in its watcher field;
\* a completed init pass leaves exactly that one open; and one file change
\* gives a Page at most one notification, pending or delivered.
WatchersOf(p) == {w \in open : w[1] = p}

C15_OneWatcher ==
    /\ \A p \in PageIds :
        /\ Cardinality(WatchersOf(p)) <= 1
        /\ WatchersOf(p) = {<<p, page[p].watcher>>} \ {<<p, 0>>}
        /\ \A c \in 1..MaxChanges :
              Cardinality({n \in notes : n.w[1] = p /\ n.c = c})
                + Cardinality({n \in hist.notified : n.page = p /\ n.c = c}) <= 1
    /\ ev.init = "ok" => WatchersOf(ev.page) = {<<ev.page, page[ev.page].watcher>>}

\* C15 witness: two init passes of a page overlapped: the second completes on
\* the page that the first has made ready, and replaces its watcher (a render
\* starts an init pass only while the page is not ready)
C15_Witness ==
    /\ ev.init = "ok"
    /\ ev.wasReady
    /\ hist.notified = {}
    /\ nBuilds[page[ev.page].path] = 1

\* C16: outside the embedded shell with watch and live reload on, an init
\* pass that completes sends the page's path to the socket clients in that
\* step, an init pass that fails or finds no artifact sends nothing, and as
\* long as nothing has failed a file change leads to such a reload notice.
C16_ReloadAfterRebuild ==
    /\ [](ev.init = "ok" => ev.reload = "socket" /\ ev.body = page[ev.page].path)
    /\ [](ev.init \in {"err", "nofile"} => ev.reload = "none")
    /\ [](ev.reload # "none" => ev.init = "ok")
    /\ (ev.op = "change") ~> (ev.reload = "socket" \/ budget.faults < MaxFaults)

\* C16 witness: the rebuild that a change notification requested has sent its
\* reload notice, and nothing has failed
C16_Witness ==
    /\ ev.reload = "socket"
    /\ ev.body = page[ev.page].path
    /\ \E r \in 1..Len(reqs) : reqs[r].st = "ok"
    /\ hist.calls # <<>>
    /\ budget.faults = MaxFaults

\* C18: a failed render removes from the registry no Page other than the one
\* it ran on: the entry it deletes is that Page's, or there is none.
C18_OnlyFailedEvicted ==
    ev.render = "err" => ev.evicted \in {0, ev.page}

\* C19: when the SSR module's render is invoked, the ambient payload slot
\* holds the context of the render call that invokes it.
C19_PayloadIsOwn ==
    ev.call # 0 =>
        /\ ev.seen = ev.call
        /\ payload.call = ev.call

\* C19 witness: the SSR module was invoked for a render while a render that
\* had started earlier was still suspended at an await
C19_Witness ==
    /\ ev.call # 0
    /\ ev.seen = ev.call
    /\ \E t \in BagToSet(tasks) : t.kind = "render" /\ t.call > ev.call

\* C20: a page is active exactly when one idle timer is pending for it, and
\* never has more than one pending.
TimersOf(p) == {tm \in timers : tm.page = p}

C20_ActiveIffTimer ==
    \A p \in PageIds :
        /\ Cardinality(TimersOf(p)) <= 1
        /\ page[p].active <=> Cardinality(TimersOf(p)) = 1

\* C20 witness: the last heartbeat of a sequence has just restarted the timer
C20_Witness ==
    /\ ev.op = "message"
    /\ budget.beats = 0
    /\ \E p \in PageIds :
          /\ page[p].active
          /\ \E tm \in TimersOf(p) : tm.left = idleTimeout /\ tm.id = page[p].idleTimer
====
